---- MODULE Spec2Model ----
(***************************************************************************)
(* State-machine model of the AI-CONNECTIVE backend: the files handler     *)
(* (upload, listing, read, visibility update, delete, ad-hoc query), the   *)
(* chat handler (RAG assembly, provider dispatch, conversation and message *)
(* persistence) and the conversations handler, over one wide key-value     *)
(* table and a blob store.                                                 *)
(***************************************************************************)
EXTENDS Integers, Sequences, FiniteSets, TLC

\* ------------------------------------------------------------------------
\* Bounds
\* ------------------------------------------------------------------------
\* number of file ids uuidv4() hands out to uploads
MaxFiles == 2
\* number of requests to the files handler that change the table
MaxFileOps == 2
\* number of chat turns that reach the persistence step
MaxTurns == 1
\* the latest instant new Date() reports
MaxClock == 1
\* number of writes of chat turns the table fails to carry out
MaxFaults == 1
\* number of identities created in the user pool
MaxUsers == 2
\* the highest temperature a request gives, in tenths
MaxTemperature == 10

\* ------------------------------------------------------------------------
\* Values
\* ------------------------------------------------------------------------
\* a JavaScript undefined: an optional field or parameter that is absent
None == "undefined"
\* an index key attribute that is absent from an item, and one that holds NULL
NoKey == <<>>
NullKey == <<"NULL">>
\* the text of a file that cannot be read
NoText == 0
\* a table key under which no item is stored
NoItem == [exists |-> FALSE]

Roles == {"system_admin", "org_admin", "company_admin", "user"}
Visibilities == {"private", "department", "company", "organization", "system"}
Categories == {"chat_attachment", "rag_source"}
FileTypes == {"txt", "pdf"}
FileIds == 1..MaxFiles
\* a numeric attribute that is absent from an item
Absent == 0 - 1
\* conversation ids: 0 is an id a client made up, t is the uuidv4() of turn t
ConvIds == 0..MaxTurns
\* the handler invocations that may run at the same time
Procs == {"p1", "p2"}
\* the clients that send chat requests: their userId and the model they use
ChatUsers == {"u1", "u3"}
\* user ids: 0 is the system_admin the deployment is seeded with, n is the
\* Username or UserSub of the n-th identity the user pool created
UserIds == 0..MaxUsers

\* The callers of the handlers: the userId, userRole and scope identifiers a
\* client sends along with its requests.
Actors ==
  { [userId |-> "u1", role |-> "user", organizationId |-> "o1",
     companyId |-> "c1", departmentId |-> "d1"],
    [userId |-> "u2", role |-> "company_admin", organizationId |-> "o1",
     companyId |-> "c1", departmentId |-> "d1"],
    [userId |-> "u3", role |-> "user", organizationId |-> "o2",
     companyId |-> "c2", departmentId |-> "d1"],
    [userId |-> "u4", role |-> "system_admin", organizationId |-> None,
     companyId |-> None, departmentId |-> None] }

\* The bodies sent to POST /files/upload: who sends, the visibility and
\* category asked for (None: field absent), the file type, whether the scope
\* identifiers are sent along, and whether fileName, fileType and fileData
\* are all there.
UploadRequests ==
  { [actor |-> "u1", visibility |-> None, category |-> None,
     fileType |-> "txt", sendScopes |-> TRUE, wellFormed |-> TRUE],
    [actor |-> "u1", visibility |-> "company", category |-> "rag_source",
     fileType |-> "txt", sendScopes |-> TRUE, wellFormed |-> TRUE],
    [actor |-> "u2", visibility |-> "company", category |-> "rag_source",
     fileType |-> "txt", sendScopes |-> TRUE, wellFormed |-> TRUE],
    [actor |-> "u2", visibility |-> "department", category |-> "rag_source",
     fileType |-> "pdf", sendScopes |-> TRUE, wellFormed |-> TRUE],
    [actor |-> "u3", visibility |-> "private", category |-> "rag_source",
     fileType |-> "pdf", sendScopes |-> TRUE, wellFormed |-> TRUE],
    [actor |-> "u4", visibility |-> "system", category |-> "rag_source",
     fileType |-> "txt", sendScopes |-> TRUE, wellFormed |-> TRUE],
    [actor |-> "u4", visibility |-> "organization", category |-> None,
     fileType |-> "pdf", sendScopes |-> FALSE, wellFormed |-> TRUE],
    [actor |-> "u3", visibility |-> None, category |-> None,
     fileType |-> "txt", sendScopes |-> TRUE, wellFormed |-> FALSE] }

ActorOf(userId) == CHOOSE a \in Actors : a.userId = userId

VARIABLES
  files,    \* table items FILE#<fileId> | META, by fileId
  blobs,    \* keys stored in the bucket, by the fileId their s3Key embeds
  nFiles,   \* number of file ids generated so far
  nFileOps, \* number of requests that changed the file items so far
  convs,    \* table items CONV#<conversationId> | META, by conversationId
  msgs,     \* table items CONV#<conversationId> | MSG#<createdAt>#<messageId>
  clock,    \* the instant the last new Date() reported
  nTurns,   \* number of chat turns that reached the persistence step
  nFaults,  \* number of writes of chat turns the table failed to carry out
  proc,     \* the chat handler invocations: position and local variables
  users,    \* table items USER#<userId> | META, by userId
  idents,   \* the identities of the user pool, by the userId they stand for
  resp      \* the last message a handler sent: its response, or the
            \* request of a chat turn to a provider that is yet to respond

fvars == <<files, blobs, nFiles, nFileOps>>
cvars == <<convs, msgs, clock, nTurns, nFaults, proc>>
uvars == <<users, idents>>
vars == <<files, blobs, nFiles, nFileOps, convs, msgs, clock, nTurns,
          nFaults, proc, users, idents, resp>>

\* ------------------------------------------------------------------------
\* Files handler
\* ------------------------------------------------------------------------
\* the matrix with a row for user that also lets through department
getAllowedVisibilitiesWide(role) ==
  CASE role = "system_admin" ->
         {"private", "department", "company", "organization", "system"}
    [] role = "org_admin" -> {"private", "department", "company", "organization"}
    [] role = "company_admin" -> {"private", "department", "company"}
    [] OTHER -> {"private", "department"}

getAllowedVisibilities(role) ==
  CASE role = "system_admin" ->
         {"private", "department", "company", "organization", "system"}
    [] role = "org_admin" -> {"private", "department", "company", "organization"}
    [] role = "company_admin" -> {"private", "department", "company"}
    [] role = "user" -> {"private"}
    [] OTHER -> {"private"}

canAccessFile(file, userId, userRole, userOrgId, userCompanyId, userDeptId) ==
  IF file.userId = userId THEN TRUE
  ELSE IF userRole = "system_admin" THEN TRUE
  ELSE CASE file.visibility = "private" -> FALSE
         [] file.visibility = "department" ->
              file.departmentId = userDeptId /\ file.companyId = userCompanyId
         [] file.visibility = "company" -> file.companyId = userCompanyId
         [] file.visibility = "organization" -> file.organizationId = userOrgId
         [] file.visibility = "system" -> TRUE
         [] OTHER -> FALSE

\* the GSI2 keys uploadFile adds to a new record
UploadGSI2(visibility, organizationId, companyId) ==
  IF visibility = "system"
    THEN [GSI2PK |-> <<"VISIBILITY", "system">>, GSI2SK |-> "FILE"]
  ELSE IF visibility = "organization" /\ organizationId # None
    THEN [GSI2PK |-> <<"ORG", organizationId>>, GSI2SK |-> "FILE"]
  ELSE IF visibility = "company" /\ companyId # None
    THEN [GSI2PK |-> <<"COMPANY", companyId>>, GSI2SK |-> "FILE"]
  ELSE [GSI2PK |-> NoKey, GSI2SK |-> None]

FileRecordOf(fileId, a, visibility, category, fileType, org, comp, dept) ==
  [exists |-> TRUE, fileId |-> fileId, userId |-> a.userId,
   createdByRole |-> a.role, organizationId |-> org, companyId |-> comp,
   departmentId |-> dept, visibility |-> visibility, category |-> category,
   fileType |-> fileType, extractedText |-> (fileType = "txt"),
   GSI2PK |-> UploadGSI2(visibility, org, comp).GSI2PK,
   GSI2SK |-> UploadGSI2(visibility, org, comp).GSI2SK]

\* POST /files/upload
uploadFile(req) ==
  LET a == ActorOf(req.actor)
      fileId == nFiles + 1
      visibility == IF req.visibility = None THEN "private" ELSE req.visibility
      category == IF req.category = None THEN "chat_attachment" ELSE req.category
      org == IF req.sendScopes THEN a.organizationId ELSE None
      comp == IF req.sendScopes THEN a.companyId ELSE None
      dept == IF req.sendScopes THEN a.departmentId ELSE None
  IN
  IF ~req.wellFormed
    THEN /\ resp' = [op |-> "upload", status |-> 400]
         /\ UNCHANGED <<files, blobs, nFiles, nFileOps>>
  ELSE IF visibility \notin getAllowedVisibilities(a.role)
    THEN /\ resp' = [op |-> "upload", status |-> 500,
                      error |-> "cannot set visibility", role |-> a.role,
                      visibility |-> visibility]
         /\ UNCHANGED <<files, blobs, nFiles, nFileOps>>
  ELSE /\ nFiles < MaxFiles
       /\ nFileOps < MaxFileOps
       /\ blobs' = blobs \cup {fileId}
       /\ files' = [files EXCEPT ![fileId] =
            FileRecordOf(fileId, a, visibility, category, req.fileType,
                         org, comp, dept)]
       /\ nFiles' = fileId
       /\ nFileOps' = nFileOps + 1
       /\ resp' = [op |-> "upload", status |-> 200, fileId |-> fileId,
                   role |-> a.role, visibility |-> visibility]

\* the ids of S as a sequence, highest first: the order of a query with
\* ScanIndexForward false, the sort key FILE#<uploadedAt> growing with the id
RECURSIVE IdsDesc(_)
IdsDesc(S) ==
  IF S = {} THEN <<>>
  ELSE LET m == CHOOSE x \in S : \A y \in S : y <= x
       IN <<m>> \o IdsDesc(S \ {m})

\* QueryCommand on GSI1 with GSI1PK = USER#<userId>, begins_with(GSI1SK, FILE#)
QueryGSI1Files(userId) ==
  IdsDesc({f \in FileIds : files[f].exists /\ files[f].userId = userId})

\* QueryCommand on GSI2 with GSI2PK = pk, begins_with(GSI2SK, FILE#): only
\* items that carry both index keys are projected into the index
QueryGSI2(pk) ==
  IdsDesc({f \in FileIds : /\ files[f].exists
                           /\ files[f].GSI2PK = pk
                           /\ files[f].GSI2SK = "FILE"})

\* allFiles passed on as it is, a file once for every query that returned it
DedupeNone(s) == s

\* new Map(allFiles.map(f => [f.fileId, f])).values(): one entry per key, at
\* the position of the key's first occurrence
RECURSIVE Dedupe(_)
Dedupe(s) ==
  IF s = <<>> THEN <<>>
  ELSE LET init == Dedupe(SubSeq(s, 1, Len(s) - 1))
           last == s[Len(s)]
       IN IF \E i \in 1..Len(init) : init[i] = last THEN init
          ELSE Append(init, last)

RECURSIVE FilterSeq(_, _)
FilterSeq(s, keep) ==
  IF s = <<>> THEN <<>>
  ELSE IF s[1] \in keep THEN <<s[1]>> \o FilterSeq(Tail(s), keep)
  ELSE FilterSeq(Tail(s), keep)

\* listFiles: the records returned, in order
listFiles(userId, userRole, organizationId, companyId, departmentId, category) ==
  LET allFiles ==
        QueryGSI1Files(userId)
        \o QueryGSI2(<<"VISIBILITY", "system">>)
        \o (IF organizationId # None THEN QueryGSI2(<<"ORG", organizationId>>)
            ELSE <<>>)
        \o (IF companyId # None THEN QueryGSI2(<<"COMPANY", companyId>>)
            ELSE <<>>)
      uniqueFiles == Dedupe(allFiles)
      keep == {f \in FileIds :
                 /\ files[f].exists
                 /\ canAccessFile(files[f], userId, userRole, organizationId,
                                  companyId, departmentId)
                 /\ (category = None \/ files[f].category = category)}
      kept == FilterSeq(uniqueFiles, keep)
  IN [i \in 1..Len(kept) |-> files[kept[i]]]

\* GetCommand on FILE#<fileId> | META
getFile(fileId) == files[fileId]

\* the value updateFileVisibility binds to :gsi2pk
UpdateGSI2PK(newVisibility, file) ==
  IF newVisibility = "system" THEN <<"VISIBILITY", "system">>
  ELSE IF newVisibility = "organization" THEN <<"ORG", file.organizationId>>
  ELSE IF newVisibility = "company" THEN <<"COMPANY", file.companyId>>
  ELSE NullKey

\* PUT /files/{fileId} with body {userId, userRole, visibility} of actor a.
\* storeTakesNull: whether the table accepts a NULL value for the index key
\* GSI2PK (a table whose index keys are typed as strings rejects the
\* update, which then fails as a whole).
updateFileVisibility(fileId, a, newVisibility, storeTakesNull) ==
  LET file == getFile(fileId)
      gsi2pk == UpdateGSI2PK(newVisibility, file)
  IN
  IF ~file.exists
    THEN /\ resp' = [op |-> "update", status |-> 500,
                      error |-> "File not found", fileId |-> fileId]
         /\ UNCHANGED <<files, blobs, nFiles, nFileOps>>
  ELSE IF file.userId # a.userId /\ a.role # "system_admin"
    THEN /\ resp' = [op |-> "update", status |-> 500,
                      error |-> "Permission denied", fileId |-> fileId,
                      actor |-> a.userId, visibility |-> newVisibility]
         /\ UNCHANGED <<files, blobs, nFiles, nFileOps>>
  ELSE IF newVisibility \notin getAllowedVisibilities(a.role)
    THEN /\ resp' = [op |-> "update", status |-> 500,
                      error |-> "cannot set visibility", fileId |-> fileId,
                      actor |-> a.userId, visibility |-> newVisibility]
         /\ UNCHANGED <<files, blobs, nFiles, nFileOps>>
  ELSE IF gsi2pk = NullKey /\ ~storeTakesNull
    THEN /\ resp' = [op |-> "update", status |-> 500, error |-> "store"]
         /\ UNCHANGED <<files, blobs, nFiles, nFileOps>>
  ELSE /\ nFileOps < MaxFileOps
       /\ files' = [files EXCEPT ![fileId].visibility = newVisibility,
                                 ![fileId].GSI2PK = gsi2pk,
                                 ![fileId].GSI2SK = "FILE"]
       /\ nFileOps' = nFileOps + 1
       /\ resp' = [op |-> "update", status |-> 200, fileId |-> fileId,
                    actor |-> a.userId, visibility |-> newVisibility]
       /\ UNCHANGED <<blobs, nFiles>>

\* PUT /files/{fileId} without a body
updateNoBody ==
  /\ resp' = [op |-> "update", status |-> 400]
  /\ UNCHANGED <<files, blobs, nFiles, nFileOps>>

\* DELETE /files/{fileId}?userId=&userRole= of actor a
deleteFile(fileId, a) ==
  LET file == getFile(fileId) IN
  IF ~file.exists
    THEN /\ resp' = [op |-> "delete", status |-> 500,
                      error |-> "File not found", fileId |-> fileId,
                      actor |-> a.userId]
         /\ UNCHANGED <<files, blobs, nFiles, nFileOps>>
  ELSE IF file.userId # a.userId /\ a.role # "system_admin"
    THEN /\ resp' = [op |-> "delete", status |-> 500,
                      error |-> "Permission denied", fileId |-> fileId,
                      actor |-> a.userId]
         /\ UNCHANGED <<files, blobs, nFiles, nFileOps>>
  ELSE /\ nFileOps < MaxFileOps
       /\ blobs' = blobs \ {fileId}
       /\ files' = [files EXCEPT ![fileId] = NoItem]
       /\ nFileOps' = nFileOps + 1
       /\ resp' = [op |-> "delete", status |-> 200, fileId |-> fileId,
                    actor |-> a.userId]
       /\ UNCHANGED nFiles

\* the text of a stored file: extractedText when the record has it, else the
\* object under its s3Key; NoText when neither can be read.  The bytes of file
\* f are written f.
FileText(file) ==
  IF file.extractedText THEN file.fileId
  ELSE IF file.fileId \in blobs THEN file.fileId
  ELSE NoText

\* POST /files/{fileId}/query, sent by actor a
queryFile(fileId, a) ==
  LET file == getFile(fileId) IN
  /\ UNCHANGED <<files, blobs, nFiles, nFileOps>>
  /\ IF ~file.exists
       THEN resp' = [op |-> "query", status |-> 500, error |-> "File not found"]
     ELSE IF FileText(file) = NoText
       THEN resp' = [op |-> "query", status |-> 500, error |-> "store"]
     ELSE resp' = [op |-> "query", status |-> 200, actor |-> a.userId,
                    file |-> file, sourceData |-> FileText(file)]

\* GET /files/{fileId}, sent by actor a
getFileRoute(fileId, a) ==
  LET file == getFile(fileId) IN
  /\ UNCHANGED <<files, blobs, nFiles, nFileOps>>
  /\ IF ~file.exists
       THEN resp' = [op |-> "get", status |-> 404]
     ELSE resp' = [op |-> "get", status |-> 200, actor |-> a.userId,
                    file |-> file]

\* GET /files with the query parameters of actor a and an optional category
listFilesRoute(a, category) ==
  /\ UNCHANGED <<files, blobs, nFiles, nFileOps>>
  /\ resp' = [op |-> "list", status |-> 200, actor |-> a.userId,
               category |-> category,
               files |-> listFiles(a.userId, a.role, a.organizationId,
                                   a.companyId, a.departmentId, category)]

\* POST /files/{fileId}/query without a body
queryNoBody ==
  /\ resp' = [op |-> "query", status |-> 400]
  /\ UNCHANGED <<files, blobs, nFiles, nFileOps>>

\* ------------------------------------------------------------------------
\* Chat handler
\* ------------------------------------------------------------------------
Sonnet == "us.anthropic.claude-sonnet-4-5-20250929-v1:0"
Gemini == "gemini-3-flash-preview"

\* the registry entries of the two models the requests name; pricing is in
\* tenths of a dollar per million tokens (3 and 15, 0.5 and 3 dollars)
MODEL_CONFIGS ==
  [m \in {Sonnet, Gemini} |->
     IF m = Sonnet
       THEN [provider |-> "bedrock", pricing |-> [input |-> 30, output |-> 150]]
       ELSE [provider |-> "gemini", pricing |-> [input |-> 5, output |-> 30]]]

\* whether getModelInfo(modelId) returns an entry
getModelInfo(modelId) == modelId \in DOMAIN MODEL_CONFIGS

\* a number that is neither undefined nor 0
Truthy(n) == n # Absent /\ n # 0

\* calculateCost, in units of 1e-7 dollars
calculateCost(modelId, inputTokens, outputTokens) ==
  IF modelId \notin DOMAIN MODEL_CONFIGS THEN 0
  ELSE inputTokens * MODEL_CONFIGS[modelId].pricing.input
       + outputTokens * MODEL_CONFIGS[modelId].pricing.output

\* the usage a provider response carries: none, or the two token counts
NoUsage == [inputTokens |-> Absent, outputTokens |-> Absent]
Usages == { NoUsage,
            [inputTokens |-> 2, outputTokens |-> 0],
            [inputTokens |-> 1, outputTokens |-> 3] }

\* getFileContent: the text of the file, NoText when there is no record or
\* its text cannot be read
getFileContent(fileId) ==
  IF ~files[fileId].exists THEN NoText ELSE FileText(files[fileId])

FileBlocksKeepingMissing(fileIds) ==
  [i \in DOMAIN fileIds |-> getFileContent(fileIds[i])]

\* the file blocks the handler appends to the system prompt, in the order
\* of fileIds; a block is written as the text it encloses
RECURSIVE FileBlocks(_)
FileBlocks(fileIds) ==
  IF fileIds = <<>> THEN <<>>
  ELSE LET content == getFileContent(fileIds[1])
       IN IF content # NoText THEN <<content>> \o FileBlocks(Tail(fileIds))
          ELSE FileBlocks(Tail(fileIds))

\* the system prompt of modifiedRequest: the incoming prompt (None when the
\* request has none) followed, when a file could be read, by the notice and
\* the blocks; `systemPromptWithFiles || undefined` is None for the empty
\* text.  The text before the blocks is the field prefix.
SystemPromptWithFiles(systemPrompt, blocks) ==
  IF blocks = <<>>
    THEN [prefix |-> IF systemPrompt = "" THEN None ELSE systemPrompt,
          blocks |-> <<>>]
  ELSE [prefix |-> IF systemPrompt = None THEN "" ELSE systemPrompt,
        blocks |-> blocks]

\* the systemPrompt values of the chat requests
SystemPrompts == {None, "", "s"}

\* the fileIds arrays of the chat requests
FileIdSeqs ==
  {<<>>} \cup {<<f>> : f \in FileIds}
         \cup {<<f, g>> : f \in {2}, g \in {1}}

IdleProc == [pc |-> "idle"]

\* process environment: MAIN_TABLE is set
TABLE_NAME == TRUE

\* new Date(): the clock has moved on by d since it was last read
Now(d) == clock + d

\* the uuidv4() draws of turn t: the two message ids of the turn
MsgIdsOf(t) == {2 * t - 1, 2 * t}

ChatResponseWithId(pr, withId, acked) ==
  [op |-> "chat", status |-> 200, turn |-> pr.turn, usage |-> pr.usage,
   conversationId |-> pr.conversationId, acked |-> acked]

\* the response returned once the persistence step is over: the provider's
\* response, with the conversationId when every write was awaited
ChatResponse(pr, withId, acked) ==
  [op |-> "chat", status |-> 200, turn |-> pr.turn, usage |-> pr.usage,
   conversationId |-> IF withId THEN pr.conversationId ELSE Absent,
   acked |-> acked]

\* the message of the error a provider adapter throws
ProviderMessage == "provider error"

providerThrowsAfterSave(sent, conversationId, isNewConversation) ==
  /\ resp' = [op |-> "chat", status |-> 500, call |-> sent,
              error |-> ProviderMessage]
  /\ conversationId \in ConvIds
  /\ convs' = [convs EXCEPT ![conversationId] =
                 [exists |-> TRUE, conversationId |-> conversationId,
                  userId |-> sent.userId, modelId |-> sent.model,
                  createdAt |-> clock, updatedAt |-> clock,
                  messageCount |-> 0, totalInputTokens |-> 0,
                  totalOutputTokens |-> 0, totalCost |-> 0,
                  GSI1PK |-> sent.userId, GSI1SK |-> clock]]
  /\ UNCHANGED <<fvars, uvars, msgs, clock, nTurns, nFaults, proc>>

\* the provider adapter throws: the outer catch answers 500 with the
\* message of the error; the persistence block was not reached
providerThrows(sent, conversationId, isNewConversation) ==
  /\ resp' = [op |-> "chat", status |-> 500, call |-> sent,
              error |-> ProviderMessage]
  /\ UNCHANGED <<fvars, uvars, cvars>>

RouteToBedrock(model) == <<"invokeBedrock">>

\* the adapters the handler invokes for a model of the registry, in order:
\* the route by modelInfo.provider
RouteToProvider(model) ==
  IF MODEL_CONFIGS[model].provider = "bedrock" THEN <<"invokeBedrock">>
  ELSE IF MODEL_CONFIGS[model].provider = "gemini" THEN <<"invokeGemini">>
  ELSE <<>>

\* the provider field of the ChatResponse an adapter returns
ProviderTag(adapter) ==
  IF adapter = "invokeBedrock" THEN "bedrock" ELSE "gemini"

\* POST /chat up to and including the provider call.  saveHistory: None or
\* "false"; providerOk: whether the provider adapter returns, with a response
\* that carries usage, or throws.
chatRequest(p, userId, model, systemPrompt, fileIds, reqConversationId, saveHistory, providerOk, usage) ==
  LET blocks == FileBlocks(fileIds)
      turn == nTurns + 1
      conversationId ==
        IF reqConversationId # Absent THEN reqConversationId ELSE turn
      isNewConversation == reqConversationId = Absent
  IN
  /\ proc[p].pc = "idle"
  /\ IF model = None \/ ~getModelInfo(model)
       THEN /\ resp' = [op |-> "chat", status |-> 400, model |-> model]
            /\ UNCHANGED <<fvars, uvars, cvars>>
     ELSE LET invoked == RouteToProvider(model)
              sent == [userId |-> userId, model |-> model,
                       invoked |-> invoked,
                       provider |-> IF invoked = <<>> THEN None
                                    ELSE ProviderTag(Head(invoked)),
                       incoming |-> systemPrompt,
                       systemPrompt |->
                         SystemPromptWithFiles(systemPrompt, blocks),
                       fileIds |-> fileIds, blocks |-> blocks]
          IN
          IF invoked = <<>>
            THEN /\ resp' = [op |-> "chat", status |-> 400, model |-> model]
                 /\ UNCHANGED <<fvars, uvars, cvars>>
          ELSE IF ~providerOk
            THEN providerThrows(sent, conversationId, isNewConversation)
          ELSE IF ~(saveHistory # "false" /\ TABLE_NAME)
            THEN /\ resp' = [op |-> "chat", status |-> 200, turn |-> 0,
                             usage |-> usage, conversationId |-> Absent,
                             acked |-> {}, call |-> sent]
                 /\ UNCHANGED <<fvars, uvars, cvars>>
          ELSE /\ nTurns < MaxTurns
               /\ nTurns' = turn
               /\ proc' = [proc EXCEPT ![p] =
                    [pc |-> "saveConversation", turn |-> turn,
                     conversationId |-> conversationId,
                     isNew |-> isNewConversation, userId |-> userId,
                     model |-> model, usage |-> usage, acked |-> {},
                     userMsgId |-> Absent, message |-> [conv |-> Absent]]]
               /\ resp' = [op |-> "invoke", status |-> 0, call |-> sent]
               /\ UNCHANGED <<fvars, uvars, convs, msgs, clock, nFaults>>

chatInvalidThrown(missing) ==
  /\ resp' = [op |-> "chat", status |-> 500, missing |-> missing]
  /\ UNCHANGED <<fvars, uvars, cvars>>

\* POST /chat without a body or with an empty messages array
chatInvalid(missing) ==
  /\ resp' = [op |-> "chat", status |-> 400, missing |-> missing]
  /\ UNCHANGED <<fvars, uvars, cvars>>

\* the item saveConversation puts for a new conversation
NewConversation(conversationId, userId, modelId, now) ==
  [exists |-> TRUE, conversationId |-> conversationId, userId |-> userId,
   modelId |-> modelId, createdAt |-> now, updatedAt |-> now,
   messageCount |-> 0, totalInputTokens |-> 0, totalOutputTokens |-> 0,
   totalCost |-> 0, GSI1PK |-> userId, GSI1SK |-> now]

\* the item an UpdateCommand creates when there is none under the key: the
\* key and the attributes the update expression sets
UpsertedConversation(now) ==
  [exists |-> TRUE, conversationId |-> Absent, userId |-> None,
   modelId |-> None, createdAt |-> Absent, updatedAt |-> now,
   messageCount |-> Absent, totalInputTokens |-> Absent,
   totalOutputTokens |-> Absent, totalCost |-> Absent, GSI1PK |-> None,
   GSI1SK |-> now]

\* saveConversation: the table after its PutCommand or UpdateCommand
saveConversation(conversationId, userId, modelId, isNew, now) ==
  IF isNew
    THEN [convs EXCEPT ![conversationId] =
            NewConversation(conversationId, userId, modelId, now)]
  ELSE IF convs[conversationId].exists
    THEN [convs EXCEPT ![conversationId].updatedAt = now,
                       ![conversationId].GSI1SK = now]
  ELSE [convs EXCEPT ![conversationId] = UpsertedConversation(now)]

saveErrorThrown(pr) ==
  [op |-> "chat", status |-> 500, turn |-> pr.turn, usage |-> pr.usage,
   conversationId |-> Absent, acked |-> pr.acked]

\* catch (saveError): the error is logged and the provider's response is
\* returned as it is
saveError(pr) == ChatResponse(pr, FALSE, pr.acked)

\* a write the table carries out leaves the count of failed writes as it is
Fault(ok) ==
  IF ok THEN UNCHANGED nFaults
  ELSE nFaults < MaxFaults /\ nFaults' = nFaults + 1

\* the step of the handler that awaits saveConversation.  d: the advance of
\* the clock; ok: whether the table carries out the write.
SaveConversationStep(p, d, ok) ==
  LET pr == proc[p]
      now == Now(d)
  IN
  /\ pr.pc = "saveConversation"
  /\ Fault(ok)
  /\ now <= MaxClock
  /\ clock' = now
  /\ IF ok
       THEN /\ convs' = saveConversation(pr.conversationId, pr.userId,
                                         pr.model, pr.isNew, now)
            /\ proc' = [proc EXCEPT ![p].pc = "saveUser",
                                    ![p].acked = pr.acked \cup {"meta"}]
            /\ UNCHANGED resp
       ELSE /\ proc' = [proc EXCEPT ![p] = IdleProc]
            /\ resp' = saveError(pr)
            /\ UNCHANGED convs
  /\ UNCHANGED <<fvars, uvars, msgs, nTurns>>

\* the item saveMessage puts
Message(conversationId, role, modelId, inputTokens, outputTokens, now, messageId, turn) ==
  [conv |-> conversationId, createdAt |-> now, messageId |-> messageId,
   role |-> role, modelId |-> modelId, inputTokens |-> inputTokens,
   outputTokens |-> outputTokens,
   cost |-> IF modelId # None /\ Truthy(inputTokens) /\ Truthy(outputTokens)
              THEN calculateCost(modelId, inputTokens, outputTokens)
              ELSE 0,
   turn |-> turn]

\* whether saveMessage goes on to update the conversation totals
UpdatesTotals(inputTokens, outputTokens) ==
  Truthy(inputTokens) \/ Truthy(outputTokens)

AddToTotalsOverwriting(message) ==
  [convs EXCEPT
     ![message.conv].messageCount = 1,
     ![message.conv].totalInputTokens =
        IF Truthy(message.inputTokens) THEN message.inputTokens ELSE 0,
     ![message.conv].totalOutputTokens =
        IF Truthy(message.outputTokens) THEN message.outputTokens ELSE 0,
     ![message.conv].totalCost = message.cost,
     ![message.conv].updatedAt = message.createdAt]

\* the UpdateCommand of saveMessage: the table after it, given the message.
\* The update expression is applied to the item in one step.
AddToTotals(message) ==
  [convs EXCEPT
     ![message.conv].messageCount = @ + 1,
     ![message.conv].totalInputTokens =
        @ + (IF Truthy(message.inputTokens) THEN message.inputTokens ELSE 0),
     ![message.conv].totalOutputTokens =
        @ + (IF Truthy(message.outputTokens) THEN message.outputTokens ELSE 0),
     ![message.conv].totalCost = @ + message.cost,
     ![message.conv].updatedAt = message.createdAt]

\* an update expression that adds to an attribute is rejected when the item
\* or the attribute is not there
CanAddToTotals(conversationId) ==
  /\ convs[conversationId].exists
  /\ convs[conversationId].messageCount # Absent
  /\ convs[conversationId].totalInputTokens # Absent
  /\ convs[conversationId].totalOutputTokens # Absent
  /\ convs[conversationId].totalCost # Absent

\* the step that awaits saveMessage(conversationId, 'user', content): the
\* message has no token counts, so no totals update follows
SaveUserMessageStep(p, d, ok, messageId) ==
  LET pr == proc[p]
      now == Now(d)
  IN
  /\ pr.pc = "saveUser"
  /\ Fault(ok)
  /\ messageId \in MsgIdsOf(pr.turn)
  /\ now <= MaxClock
  /\ clock' = now
  /\ IF ok
       THEN /\ msgs' = msgs \cup
                 {Message(pr.conversationId, "user", None, Absent, Absent,
                          now, messageId, pr.turn)}
            /\ proc' = [proc EXCEPT ![p].pc = "saveAssistant",
                                    ![p].userMsgId = messageId,
                                    ![p].acked = pr.acked \cup {"user"}]
            /\ UNCHANGED resp
       ELSE /\ proc' = [proc EXCEPT ![p] = IdleProc]
            /\ resp' = saveError(pr)
            /\ UNCHANGED msgs
  /\ UNCHANGED <<fvars, uvars, convs, nTurns>>

\* the step that awaits the PutCommand of saveMessage(conversationId,
\* 'assistant', ...); the handler responds here when no totals update follows
SaveAssistantMessageStep(p, d, ok) ==
  LET pr == proc[p]
      now == Now(d)
      messageId == CHOOSE m \in MsgIdsOf(pr.turn) : m # pr.userMsgId
      message == Message(pr.conversationId, "assistant", pr.model,
                         pr.usage.inputTokens, pr.usage.outputTokens, now,
                         messageId, pr.turn)
  IN
  /\ pr.pc = "saveAssistant"
  /\ Fault(ok)
  /\ now <= MaxClock
  /\ clock' = now
  /\ IF ~ok
       THEN /\ proc' = [proc EXCEPT ![p] = IdleProc]
            /\ resp' = saveError(pr)
            /\ UNCHANGED msgs
     ELSE IF UpdatesTotals(pr.usage.inputTokens, pr.usage.outputTokens)
       THEN /\ msgs' = msgs \cup {message}
            /\ proc' = [proc EXCEPT ![p].pc = "updateTotals",
                                    ![p].message = message,
                                    ![p].acked = pr.acked \cup {"assistant"}]
            /\ UNCHANGED resp
     ELSE /\ msgs' = msgs \cup {message}
          /\ proc' = [proc EXCEPT ![p] = IdleProc]
          /\ resp' = ChatResponse(pr, TRUE, pr.acked \cup {"assistant"})
  /\ UNCHANGED <<fvars, uvars, convs, nTurns>>

\* the step that awaits the UpdateCommand of saveMessage for the assistant
\* message, after which the handler responds
UpdateTotalsStep(p, ok) ==
  LET pr == proc[p] IN
  /\ pr.pc = "updateTotals"
  /\ Fault(ok)
  /\ proc' = [proc EXCEPT ![p] = IdleProc]
  /\ IF ok /\ CanAddToTotals(pr.conversationId)
       THEN /\ convs' = AddToTotals(pr.message)
            /\ resp' = ChatResponse(pr, TRUE, pr.acked \cup {"totals"})
       ELSE /\ resp' = saveError(pr)
            /\ UNCHANGED convs
  /\ UNCHANGED <<fvars, uvars, msgs, clock, nTurns>>

\* ------------------------------------------------------------------------
\* Conversations handler
\* ------------------------------------------------------------------------
\* sort keys MSG#<createdAt>#<messageId> compare by createdAt, then messageId
SKBefore(m, n) ==
  \/ m.createdAt < n.createdAt
  \/ m.createdAt = n.createdAt /\ m.messageId < n.messageId

\* the messages of S in ascending order of sort key (ScanIndexForward true)
RECURSIVE SortBySK(_)
SortBySK(S) ==
  IF S = {} THEN <<>>
  ELSE LET first == CHOOSE m \in S : \A n \in S \ {m} : SKBefore(m, n)
       IN <<first>> \o SortBySK(S \ {first})

\* getConversation: the META item and the MSG# items of the partition
getConversation(conversationId) ==
  [conversation |-> convs[conversationId],
   messages |-> SortBySK({m \in msgs : m.conv = conversationId})]

\* GET /conversations/{conversationId}
getConversationRoute(conversationId) ==
  LET result == getConversation(conversationId) IN
  /\ IF ~result.conversation.exists
       THEN resp' = [op |-> "getConversation", status |-> 404]
       ELSE resp' = [op |-> "getConversation", status |-> 200,
                     conversationId |-> conversationId,
                     conversation |-> result.conversation,
                     messages |-> result.messages]
  /\ UNCHANGED <<fvars, uvars, cvars>>

\* the conversation ids of S, highest GSI1SK first
RECURSIVE SortByGSI1SKDesc(_)
SortByGSI1SKDesc(S) ==
  IF S = {} THEN <<>>
  ELSE LET first == CHOOSE c \in S : \A e \in S \ {c} :
                      \/ convs[c].GSI1SK > convs[e].GSI1SK
                      \/ convs[c].GSI1SK = convs[e].GSI1SK /\ c > e
       IN <<first>> \o SortByGSI1SKDesc(S \ {first})

\* listConversations: GSI1 query on USER#<userId>, begins_with(GSI1SK, CONV#)
listConversations(userId) ==
  LET ids == SortByGSI1SKDesc({c \in ConvIds : /\ convs[c].exists
                                               /\ convs[c].GSI1PK = userId})
  IN [i \in 1..Len(ids) |-> convs[ids[i]]]

\* GET /conversations?userId=
listConversationsRoute(userId) ==
  /\ resp' = [op |-> "listConversations", status |-> 200, userId |-> userId,
              conversations |-> listConversations(userId)]
  /\ UNCHANGED <<fvars, uvars, cvars>>

\* the sort keys of the items under CONV#<conversationId>: 0 for META, the
\* messageId for a message item
ItemKeys(conversationId) ==
  (IF convs[conversationId].exists THEN {0} ELSE {})
    \cup {m.messageId : m \in {n \in msgs : n.conv = conversationId}}

\* DELETE /conversations/{conversationId}.  ok: the BatchWriteCommand
\* returns; unprocessed: the keys it returns as UnprocessedItems, which
\* deleteConversation does not read.
deleteConversation(conversationId, ok, unprocessed) ==
  LET items == ItemKeys(conversationId)
      deleted == items \ unprocessed
  IN
  /\ unprocessed \subseteq items
  /\ IF items = {} \/ ~ok
       THEN /\ resp' = [op |-> "deleteConversation", status |-> 500,
                        conversationId |-> conversationId]
            /\ UNCHANGED <<fvars, uvars, cvars>>
       ELSE /\ convs' = IF 0 \in deleted
                          THEN [convs EXCEPT ![conversationId] = NoItem]
                          ELSE convs
            /\ msgs' = {m \in msgs : ~(m.conv = conversationId
                                         /\ m.messageId \in deleted)}
            /\ resp' = [op |-> "deleteConversation", status |-> 200,
                        conversationId |-> conversationId]
            /\ UNCHANGED <<fvars, uvars, clock, nTurns, nFaults, proc>>

\* ------------------------------------------------------------------------
\* Auth and admin handler
\* ------------------------------------------------------------------------
\* the record of the system_admin the table is seeded with
SeedAdmin ==
  [exists |-> TRUE, userId |-> 0, role |-> "system_admin",
   organizationId |-> None, companyId |-> None, GSI1PK |-> "USERS",
   updatedAt |-> 0]

\* the bodies of POST /admin/users: a role and the scope identifiers
CreateUserBodies ==
  [role : Roles,
   scope : {[organizationId |-> None, companyId |-> None],
            [organizationId |-> "o1", companyId |-> "c1"],
            [organizationId |-> "o2", companyId |-> "c1"]}]

\* the bearer values of the requests: a userId, or Absent when the header is
\* missing
Bearers == UserIds \cup {Absent}

\* getUserFromToken: the record under USER#<userId>, NoItem for null
getUserFromToken(authHeader) ==
  IF authHeader = Absent THEN NoItem ELSE users[authHeader]

allowedRolesAll ==
  [r \in Roles |-> Roles]

\* createUser: the roles a requesting role may create
allowedRoles ==
  [r \in Roles |->
     CASE r = "system_admin" -> Roles
       [] r = "org_admin" -> {"company_admin", "user"}
       [] r = "company_admin" -> {"user"}
       [] OTHER -> {}]

\* the id of the next identity of the user pool
NextUserId == Cardinality(idents) + 1

\* createUser(requestingUser, body).  cognitoOk: AdminCreateUser returns;
\* putOk: the table carries out the PutCommand.
createUser(authHeader, body, cognitoOk, putOk) ==
  LET requestingUser == getUserFromToken(authHeader)
      userId == NextUserId
      answer(status) == [op |-> "createUser", status |-> status,
                         actor |-> authHeader, body |-> body,
                         userId |-> IF status = 200 THEN userId ELSE Absent]
  IN
  IF ~requestingUser.exists
    THEN /\ resp' = [op |-> "createUser", status |-> 401,
                     actor |-> authHeader]
         /\ UNCHANGED uvars
  ELSE IF body.role \notin allowedRoles[requestingUser.role]
    THEN /\ resp' = answer(403)
         /\ UNCHANGED uvars
  ELSE IF /\ requestingUser.role = "org_admin"
          /\ body.scope.organizationId # requestingUser.organizationId
    THEN /\ resp' = answer(403)
         /\ UNCHANGED uvars
  ELSE IF /\ requestingUser.role = "company_admin"
          /\ body.scope.companyId # requestingUser.companyId
    THEN /\ resp' = answer(403)
         /\ UNCHANGED uvars
  ELSE IF ~cognitoOk
    THEN /\ resp' = answer(400)
         /\ UNCHANGED uvars
  ELSE /\ userId <= MaxUsers
       /\ idents' = idents \cup {userId}
       /\ IF putOk
            THEN /\ users' = [users EXCEPT ![userId] =
                      [exists |-> TRUE, userId |-> userId,
                       role |-> body.role,
                       organizationId |-> body.scope.organizationId,
                       companyId |-> body.scope.companyId,
                       GSI1PK |-> "USERS", updatedAt |-> clock]]
                 /\ resp' = answer(200)
            ELSE /\ resp' = answer(400)
                 /\ UNCHANGED users

\* signUp: an identity and a record with role user and no scope.
signUp(cognitoOk, putOk) ==
  LET userId == NextUserId IN
  IF ~cognitoOk
    THEN /\ resp' = [op |-> "signUp", status |-> 400, userId |-> userId]
         /\ UNCHANGED uvars
  ELSE /\ userId <= MaxUsers
       /\ idents' = idents \cup {userId}
       /\ IF putOk
            THEN /\ users' = [users EXCEPT ![userId] =
                      [exists |-> TRUE, userId |-> userId, role |-> "user",
                       organizationId |-> None, companyId |-> None,
                       GSI1PK |-> "USERS", updatedAt |-> clock]]
                 /\ resp' = [op |-> "signUp", status |-> 200,
                             userId |-> userId]
            ELSE /\ resp' = [op |-> "signUp", status |-> 400,
                             userId |-> userId]
                 /\ UNCHANGED users

\* the items of the USERS partition of GSI1 in the order of GSI1SK
\* ("USER#" + createdAt): the records in the order they were created, which
\* is the order of their userIds
RECURSIVE UsersByGSI1SK(_)
UsersByGSI1SK(ids) ==
  IF ids = {} THEN <<>>
  ELSE LET first == CHOOSE u \in ids : \A v \in ids : u <= v
       IN <<users[first]>> \o UsersByGSI1SK(ids \ {first})

\* a Query with Limit n reads the first n items of the partition; the
\* FilterExpression is applied to what was read
QueryLimit(items, n, keep) ==
  FilterSeq(SubSeq(items, 1, IF Len(items) < n THEN Len(items) ELSE n), keep)

\* signIn.  The email of the identity userId is written userId; authOk:
\* InitiateAuth returns an AuthenticationResult (the account is confirmed and
\* the password is right).
signIn(email, authOk) ==
  /\ UNCHANGED uvars
  /\ IF ~authOk
       THEN resp' = [op |-> "signIn", status |-> 401, email |-> email]
     ELSE LET items == UsersByGSI1SK({u \in UserIds :
                          users[u].exists /\ users[u].GSI1PK = "USERS"})
              found == QueryLimit(items, 1,
                         {u \in {users[v] : v \in UserIds} :
                            u.exists /\ u.userId = email})
          IN resp' = [op |-> "signIn", status |-> 200, email |-> email,
                      user |-> IF found = <<>> THEN NoItem ELSE found[1]]

\* getProfile(userId): the record under USER#<userId>, whoever asks
getProfile(userId) ==
  /\ UNCHANGED <<uvars, clock>>
  /\ IF ~users[userId].exists
       THEN resp' = [op |-> "getProfile", status |-> 404,
                     userId |-> userId]
     ELSE resp' = [op |-> "getProfile", status |-> 200, userId |-> userId,
                   user |-> users[userId]]

\* updateProfile(userId, body), d later than the clock was last read.  With
\* a name the update expression is "SET updatedAt = :now, name = :name",
\* which the table rejects because name is a reserved word; without one the
\* UpdateCommand sets updatedAt on the item under USER#<userId> and creates
\* that item, with nothing else in it, when there is none.
updateProfile(userId, name, d) ==
  IF name # None
    THEN /\ resp' = [op |-> "updateProfile", status |-> 500,
                     userId |-> userId]
         /\ UNCHANGED <<uvars, clock>>
  ELSE /\ Now(d) <= MaxClock
       /\ clock' = Now(d)
       /\ users' = [users EXCEPT ![userId] =
            IF users[userId].exists
              THEN [users[userId] EXCEPT !.updatedAt = Now(d)]
              ELSE [exists |-> TRUE, userId |-> Absent, role |-> None,
                    organizationId |-> None, companyId |-> None,
                    GSI1PK |-> None, updatedAt |-> Now(d)]]
       /\ UNCHANGED idents
       /\ resp' = [op |-> "updateProfile", status |-> 200,
                   userId |-> userId]

\* the /auth/profile routes: userId is the query parameter (Absent when
\* there is none); authHeader is read and not used
profileRoute(authHeader, method, userId, name, d) ==
  IF userId = Absent
    THEN /\ resp' = [op |-> "profile", status |-> 400]
         /\ UNCHANGED <<uvars, clock>>
  ELSE \/ method = "GET" /\ getProfile(userId)
       \/ method = "PUT" /\ updateProfile(userId, name, d)

\* the value a filter compares with when the requesting user has none:
\* requestingUser.organizationId || ''
OrEmpty(v) == IF v = None THEN "" ELSE v

UserFilterNone(requestingUser, queryOrganizationId) ==
  [attribute |-> None, value |-> None]

\* listUsers: the FilterExpression of the query, as the attribute it
\* compares and the value; attribute None when there is no filter
UserFilter(requestingUser, queryOrganizationId) ==
  CASE requestingUser.role = "system_admin" ->
         IF queryOrganizationId \notin {None, ""}
           THEN [attribute |-> "organizationId",
                 value |-> queryOrganizationId]
           ELSE [attribute |-> None, value |-> None]
    [] requestingUser.role = "org_admin" ->
         [attribute |-> "organizationId",
          value |-> OrEmpty(requestingUser.organizationId)]
    [] OTHER ->
         [attribute |-> "companyId",
          value |-> OrEmpty(requestingUser.companyId)]

\* the items of the USERS partition of GSI1 that pass the filter, as the
\* fields the response keeps of them
QueryUsers(filter) ==
  {users[u] : u \in {v \in UserIds :
      /\ users[v].exists
      /\ users[v].GSI1PK = "USERS"
      /\ filter.attribute # None => users[v][filter.attribute] = filter.value}}

\* listUsers(requestingUser, query)
listUsers(authHeader, queryOrganizationId) ==
  LET requestingUser == getUserFromToken(authHeader)
      answer(status, found) ==
        [op |-> "listUsers", status |-> status, actor |-> authHeader,
         organizationId |-> queryOrganizationId, users |-> found]
  IN
  /\ UNCHANGED uvars
  /\ IF ~requestingUser.exists
       THEN resp' = [op |-> "listUsers", status |-> 401,
                     actor |-> authHeader]
     ELSE IF requestingUser.role \notin
               {"system_admin", "org_admin", "company_admin"}
       THEN resp' = answer(403, {})
     ELSE resp' = answer(200,
            QueryUsers(UserFilter(requestingUser, queryOrganizationId)))

\* ------------------------------------------------------------------------
\* Specifications
\* ------------------------------------------------------------------------
Init ==
  /\ files = [f \in FileIds |-> NoItem]
  /\ blobs = {}
  /\ nFiles = 0
  /\ nFileOps = 0
  /\ convs = [c \in ConvIds |-> NoItem]
  /\ msgs = {}
  /\ clock = 0
  /\ nTurns = 0
  /\ nFaults = 0
  /\ proc = [p \in Procs |-> IdleProc]
  /\ users = [u \in UserIds |-> IF u = 0 THEN SeedAdmin ELSE NoItem]
  /\ idents = {}
  /\ resp = [op |-> "none", status |-> 0]

UploadFile ==
  /\ \E req \in UploadRequests : uploadFile(req)
  /\ UNCHANGED <<cvars, uvars>>

ListFiles ==
  /\ \E a \in Actors, c \in Categories \cup {None} : listFilesRoute(a, c)
  /\ UNCHANGED <<cvars, uvars>>

GetFile ==
  /\ \E a \in Actors, f \in FileIds : getFileRoute(f, a)
  /\ UNCHANGED <<cvars, uvars>>

UpdateFileVisibility ==
  /\ \/ \E a \in Actors, f \in FileIds, v \in Visibilities \cup {None},
           n \in BOOLEAN :
          updateFileVisibility(f, a, v, n)
     \/ updateNoBody
  /\ UNCHANGED <<cvars, uvars>>

DeleteFile ==
  /\ \E a \in Actors, f \in FileIds : deleteFile(f, a)
  /\ UNCHANGED <<cvars, uvars>>

QueryFile ==
  /\ \/ \E a \in Actors, f \in FileIds : queryFile(f, a)
     \/ queryNoBody
  /\ UNCHANGED <<cvars, uvars>>

NextFiles ==
  \/ UploadFile
  \/ ListFiles
  \/ GetFile
  \/ UpdateFileVisibility
  \/ DeleteFile
  \/ QueryFile

SpecFiles == Init /\ [][NextFiles]_vars

\* the model a client asks for
ModelOf(userId) == IF userId = "u1" THEN Sonnet ELSE Gemini

\* chat requests that name no files, whose provider call returns and whose
\* turn is persisted, to the handler invocations P
ChatRequestOf(P) ==
  \E p \in P, u \in ChatUsers,
     c \in {Absent} \cup {x \in ConvIds : x <= nTurns}, us \in Usages :
    chatRequest(p, u, ModelOf(u), None, <<>>, c, None, TRUE, us)

\* chat requests with saveHistory false that name files
ChatRequestWithFiles ==
  \/ \E u \in ChatUsers, fs \in FileIdSeqs, m \in {Sonnet, Gemini},
        sp \in SystemPrompts :
       chatRequest("p1", u, m, sp, fs, Absent, "false", TRUE,
                   [inputTokens |-> 1, outputTokens |-> 3])
  \/ \E u \in ChatUsers, fs \in FileIdSeqs, m \in {Sonnet, Gemini} :
       chatRequest("p1", u, m, None, fs, Absent, "false", FALSE, NoUsage)
  \/ \E u \in ChatUsers, m \in {"unknown", None} :
       chatRequest("p1", u, m, None, <<>>, Absent, "false", TRUE, NoUsage)
  \/ \E missing \in {"body", "messages"} : chatInvalid(missing)

\* chat requests whose turn would be persisted and whose provider call
\* throws
ChatRequestFailing(P) ==
  \E p \in P, u \in ChatUsers,
     c \in {Absent} \cup {x \in ConvIds : x <= nTurns} :
    chatRequest(p, u, ModelOf(u), None, <<>>, c, None, FALSE, NoUsage)

SaveConversationOf(P) ==
  \E p \in P, d \in {0, 1}, ok \in BOOLEAN : SaveConversationStep(p, d, ok)

SaveUserMessageOf(P) ==
  \E p \in P, d \in {0, 1}, ok \in BOOLEAN, m \in 1..(2 * MaxTurns + 2) :
    SaveUserMessageStep(p, d, ok, m)

SaveAssistantMessageOf(P) ==
  \E p \in P, d \in {0, 1}, ok \in BOOLEAN :
    SaveAssistantMessageStep(p, d, ok)

UpdateTotalsOf(P) == \E p \in P, ok \in BOOLEAN : UpdateTotalsStep(p, ok)

GetConversation == \E c \in ConvIds : getConversationRoute(c)

ListConversations == \E u \in ChatUsers : listConversationsRoute(u)

\* the UnprocessedItems of a BatchWriteCommand: none, or one key
Unprocessed == {{}} \cup {{k} : k \in 0..(2 * MaxTurns)}

DeleteConversation ==
  \E c \in ConvIds, ok \in BOOLEAN, u \in Unprocessed :
    deleteConversation(c, ok, u)

\* the steps of chat turns served one after another
ChatTurn ==
  \/ ChatRequestOf({"p1"})
  \/ SaveConversationOf({"p1"})
  \/ SaveUserMessageOf({"p1"})
  \/ SaveAssistantMessageOf({"p1"})
  \/ UpdateTotalsOf({"p1"})

\* chat turns and reads of the conversations they write
Next ==
  \/ ChatTurn
  \/ GetConversation
  \/ ListConversations

Spec == Init /\ [][Next]_vars

\* chat turns and deletions of the conversations they write
\* chat turns next to requests whose provider call fails
NextFailing ==
  \/ ChatTurn
  \/ ChatRequestFailing({"p1"})

SpecFailing == Init /\ [][NextFailing]_vars

NextDelete ==
  \/ ChatTurn
  \/ DeleteConversation

SpecDelete == Init /\ [][NextDelete]_vars

\* ---- provider services ----

\* the temperature and maxTokens of a ChatRequest: absent, or a number;
\* temperatures are in tenths
Temperatures == {Absent} \cup 0..MaxTemperature
MaxTokensValues == {Absent, 1, 100, 4096, 8192}
ProviderRequests == [temperature : Temperatures, maxTokens : MaxTokensValues]

\* `value || fallback`
OrDefault(value, fallback) == IF Truthy(value) THEN value ELSE fallback

\* invokeBedrock: the ConverseCommand it sends
invokeBedrock(request) ==
  /\ resp' = [op |-> "converse", status |-> 0, request |-> request,
              maxTokens |-> OrDefault(request.maxTokens, 4096),
              temperature |-> OrDefault(request.temperature, 7)]
  /\ UNCHANGED <<fvars, cvars, uvars>>

\* invokeGemini: the generateContent call it makes
invokeGemini(request) ==
  /\ resp' = [op |-> "generateContent", status |-> 0, request |-> request,
              maxTokens |-> OrDefault(request.maxTokens, 8192),
              temperature |-> OrDefault(request.temperature, 7)]
  /\ UNCHANGED <<fvars, cvars, uvars>>

InvokeBedrock == \E request \in ProviderRequests : invokeBedrock(request)

InvokeGemini == \E request \in ProviderRequests : invokeGemini(request)

NextProviders ==
  \/ InvokeBedrock
  \/ InvokeGemini

SpecProviders == Init /\ [][NextProviders]_vars

\* a second handler invocation, p2, is past its provider call and about to
\* persist a turn of u1 on conversation 0, which an earlier turn of u1
\* created; its turn and message ids lie beyond those of the turns p1 starts
InFlightTurn(usage) ==
  [pc |-> "saveConversation", turn |-> MaxTurns + 1, conversationId |-> 0,
   isNew |-> FALSE, userId |-> "u1", model |-> Sonnet, usage |-> usage,
   acked |-> {}, userMsgId |-> Absent, message |-> [conv |-> Absent]]

InitConcurrent ==
  /\ files = [f \in FileIds |-> NoItem]
  /\ blobs = {}
  /\ nFiles = 0
  /\ nFileOps = 0
  /\ convs = [c \in ConvIds |->
               IF c = 0 THEN NewConversation(0, "u1", Sonnet, 0) ELSE NoItem]
  /\ msgs = {}
  /\ clock = 0
  /\ nTurns = 0
  /\ nFaults = 0
  /\ \E us \in Usages :
       proc = [p \in Procs |-> IF p = "p2" THEN InFlightTurn(us)
                                ELSE IdleProc]
  /\ users = [u \in UserIds |-> IF u = 0 THEN SeedAdmin ELSE NoItem]
  /\ idents = {}
  /\ resp = [op |-> "none", status |-> 0]

\* turns of u1 on conversation 0
ChatRequestOnShared ==
  \E us \in Usages :
    chatRequest("p1", "u1", Sonnet, None, <<>>, 0, None, TRUE, us)

\* turns on one conversation, served by two handler invocations at a time
NextConcurrent ==
  \/ ChatRequestOnShared
  \/ SaveConversationOf(Procs)
  \/ SaveUserMessageOf(Procs)
  \/ SaveAssistantMessageOf(Procs)
  \/ UpdateTotalsOf(Procs)

SpecConcurrent == InitConcurrent /\ [][NextConcurrent]_vars

\* turns of u3 on conversation 0, which belongs to u1
ChatRequestByOther ==
  \E us \in Usages :
    chatRequest("p1", "u3", Gemini, None, <<>>, 0, None, TRUE, us)

\* turns on a conversation by its owner (p2) and by another user (p1)
NextForeign ==
  \/ ChatRequestByOther
  \/ SaveConversationOf(Procs)
  \/ SaveUserMessageOf(Procs)
  \/ SaveAssistantMessageOf(Procs)
  \/ UpdateTotalsOf(Procs)

SpecForeign == InitConcurrent /\ [][NextForeign]_vars

NextRag ==
  \/ UploadFile
  \/ ChatRequestWithFiles

SpecRag == Init /\ [][NextRag]_vars

\* whether the user pool creates the identity and, if so, whether the table
\* then carries out the PutCommand
StoreOutcomes == {<<TRUE, TRUE>>, <<TRUE, FALSE>>, <<FALSE, FALSE>>}

CreateUser ==
  /\ \E h \in Bearers, b \in CreateUserBodies, o \in StoreOutcomes :
       createUser(h, b, o[1], o[2])
  /\ UNCHANGED <<fvars, cvars>>

SignUp ==
  /\ \E o \in StoreOutcomes : signUp(o[1], o[2])
  /\ UNCHANGED <<fvars, cvars>>

ListUsers ==
  /\ \E h \in Bearers, q \in {None, "o1"} : listUsers(h, q)
  /\ UNCHANGED <<fvars, cvars>>

\* sign-in with the email of an identity; the user pool authenticates only
\* identities it holds
SignIn ==
  \E email \in UserIds, authOk \in BOOLEAN :
    /\ authOk => email \in idents
    /\ signIn(email, authOk)
    /\ UNCHANGED <<fvars, cvars>>

ProfileRoute ==
  \E authHeader \in Bearers, method \in {"GET", "PUT"},
     userId \in UserIds \cup {Absent}, name \in {None, "n"}, d \in {0, 1} :
    /\ profileRoute(authHeader, method, userId, name, d)
    /\ UNCHANGED <<fvars, convs, msgs, nTurns, nFaults, proc>>

\* the public auth routes and the profile routes
NextAuth ==
  \/ SignUp
  \/ SignIn
  \/ ProfileRoute

SpecAuth == Init /\ [][NextAuth]_vars

\* requests to the auth and admin handler
NextUsers ==
  \/ CreateUser
  \/ SignUp
  \/ ListUsers

SpecUsers == Init /\ [][NextUsers]_vars

\* ------------------------------------------------------------------------
\* Properties of the files handler (checked under SpecFiles)
\* ------------------------------------------------------------------------
ActorCanAccess(file, userId) ==
  LET a == ActorOf(userId)
  IN canAccessFile(file, a.userId, a.role, a.organizationId, a.companyId,
                   a.departmentId)

\* C4: GET /files/{id} and POST /files/{id}/query hand a file's record or
\* content to an actor only when canAccessFile(file, actor) holds.
C4_ReadsConsultAccess ==
  (resp.op \in {"get", "query"} /\ resp.status = 200)
    => ActorCanAccess(resp.file, resp.actor)

\* C8: every file GET /files returns to actor x satisfies
\* canAccessFile(file, x), has the queried category when one was given, and
\* no fileId is returned twice.
C8_ListingSound ==
  resp.op = "list" =>
    /\ \A i \in 1..Len(resp.files) :
         /\ ActorCanAccess(resp.files[i], resp.actor)
         /\ (resp.category # None
               => resp.files[i].category = resp.category)
    /\ \A i, j \in 1..Len(resp.files) :
         resp.files[i].fileId = resp.files[j].fileId => i = j

\* C27: GET /files without a category filter returns to actor x every stored
\* file f with canAccessFile(f, x); stated for the actors that are not
\* system_admin.
C27_ListingComplete ==
  (/\ resp.op = "list"
   /\ resp.category = None
   /\ ActorOf(resp.actor).role # "system_admin")
    => \A f \in FileIds :
         (files[f].exists /\ ActorCanAccess(files[f], resp.actor))
           => \E i \in 1..Len(resp.files) : resp.files[i].fileId = f

\* a listing with a category filter that returns a file found by two of the
\* queries (the owner's query and a GSI2 query) while the table holds another
\* file that is left out
C8_Witness ==
  /\ resp.op = "list"
  /\ resp.category # None
  /\ \E i \in 1..Len(resp.files) :
       /\ resp.files[i].userId = resp.actor
       /\ resp.files[i].GSI2PK = <<"COMPANY", ActorOf(resp.actor).companyId>>
  /\ \E f \in FileIds :
       /\ files[f].exists
       /\ \A i \in 1..Len(resp.files) : resp.files[i].fileId # f

\* the GSI2 partition key that belongs to a record's visibility
ExpectedGSI2PK(file) ==
  CASE file.visibility = "system" -> <<"VISIBILITY", "system">>
    [] file.visibility = "organization" -> <<"ORG", file.organizationId>>
    [] file.visibility = "company" -> <<"COMPANY", file.companyId>>
    [] OTHER -> NoKey

\* C9: every file record with visibility system, organization or company
\* has exactly one GSI2 projection, under VISIBILITY#system, ORG#<its
\* organizationId> or COMPANY#<its companyId>; every record with visibility
\* private or department has no GSI2 keys.
C9_GSI2FollowsVisibility ==
  \A f \in FileIds : files[f].exists =>
    IF files[f].visibility \in {"system", "organization", "company"}
      THEN /\ files[f].GSI2PK = ExpectedGSI2PK(files[f])
           /\ files[f].GSI2PK[2] # None
           /\ files[f].GSI2SK = "FILE"
      ELSE /\ files[f].GSI2PK = NoKey
           /\ files[f].GSI2SK = None

\* the role-to-visibility matrix as the specification tabulates it
VisibilityMatrix ==
  [r \in Roles |->
     CASE r = "system_admin" ->
            {"private", "department", "company", "organization", "system"}
       [] r = "org_admin" -> {"private", "department", "company", "organization"}
       [] r = "company_admin" -> {"private", "department", "company"}
       [] r = "user" -> {"private"}]

\* C10 as claimed: the visibility of every file record is in the set the
\* matrix allows for the role recorded as the file's creator.
C10_VisibilityAllowedForCreator ==
  \A f \in FileIds : files[f].exists =>
    files[f].visibility \in VisibilityMatrix[files[f].createdByRole]

\* C10 as amended: a file's visibility is in the set the matrix allows for
\* the role of the actor that set it, the creator (createdByRole) at upload
\* and the updating actor at each visibility update; nothing else changes it.
C10_VisibilitySetWithinActorRole ==
  [][\A f \in FileIds :
       (files'[f].exists
          /\ (~files[f].exists \/ files'[f].visibility # files[f].visibility))
       => IF files[f].exists
            THEN /\ resp'.op = "update"
                 /\ resp'.fileId = f
                 /\ files'[f].visibility
                      \in VisibilityMatrix[ActorOf(resp'.actor).role]
            ELSE /\ resp'.op = "upload"
                 /\ files'[f].visibility
                      \in VisibilityMatrix[files'[f].createdByRole]]_vars

\* a visibility update by a system_admin has left a file with a visibility
\* outside the set of its creator's role
C10_Witness ==
  /\ resp.op = "update"
  /\ resp.status = 200
  /\ files[resp.fileId].exists
  /\ files[resp.fileId].createdByRole # ActorOf(resp.actor).role
  /\ files[resp.fileId].visibility
       \notin VisibilityMatrix[files[resp.fileId].createdByRole]

\* C13: POST /files/upload with a visibility outside the allowed set of the
\* given userRole is answered 403.
C13_ForbiddenVisibilityIs403 ==
  ( /\ resp.op = "upload"
    /\ resp.status # 400
    /\ resp.visibility \notin VisibilityMatrix[resp.role] )
    => resp.status = 403

\* actor a may change file: it is the owner or a system_admin
MayChangeFile(file, a) == file.userId = a.userId \/ a.role = "system_admin"

\* the request answered by r is one the specification lets through
ChangeAllowed(file, r) ==
  /\ MayChangeFile(file, ActorOf(r.actor))
  /\ r.op = "update" => r.visibility \in VisibilityMatrix[ActorOf(r.actor).role]

\* C14: a PUT or DELETE on an existing file by an actor that is neither its
\* owner nor a system_admin, or a PUT with a visibility outside the actor's
\* allowed set, is answered 403 and leaves the file records and the blobs
\* unchanged.
C14_RefusedChangeIs403 ==
  [][( /\ resp'.op \in {"update", "delete"}
       /\ resp'.status # 400
       /\ files[resp'.fileId].exists
       /\ ~ChangeAllowed(files[resp'.fileId], resp') )
       => resp'.status = 403 /\ UNCHANGED <<files, blobs>>]_vars

\* C15: when DELETE /files/{id} by an actor was answered 200, the same
\* request sent again is answered 404 or 200.
C15_SecondDeleteIs404 ==
  [][( /\ resp.op = "delete"
       /\ resp.status = 200
       /\ resp'.op = "delete"
       /\ resp'.fileId = resp.fileId
       /\ resp'.actor = resp.actor )
       => resp'.status \in {200, 404}]_vars

\* ------------------------------------------------------------------------
\* Properties of the chat turn (checked under Spec and SpecRag)
\* ------------------------------------------------------------------------
\* the turn answered 200 with a conversationId
TurnSaved ==
  /\ resp.op = "chat"
  /\ resp.status = 200
  /\ resp.conversationId # Absent

\* the turn reached the persistence step and was answered 200
TurnAnswered ==
  /\ resp.op = "chat"
  /\ resp.status = 200
  /\ resp.turn >= 1

MessagesOf(c) == {m \in msgs : m.conv = c}

\* an absent number counts as 0
Val(n) == IF n = Absent THEN 0 ELSE n

\* the sum of attribute field over the items of S
RECURSIVE SumOf(_, _)
SumOf(S, field) ==
  IF S = {} THEN 0
  ELSE LET m == CHOOSE x \in S : TRUE
       IN Val(m[field]) + SumOf(S \ {m}, field)

\* C1: after turns that were answered with the conversationId c and in which
\* no write failed, the messageCount of the META item of c is the number of
\* message items stored under c.
C1_MessageCountCountsMessages ==
  (TurnSaved /\ nFaults = 0)
    => convs[resp.conversationId].messageCount
         = Cardinality(MessagesOf(resp.conversationId))

\* C2: after a chat turn that was answered 200, no write having failed in the
\* table, the totals of every conversation that has messages are the sums of
\* inputTokens, outputTokens and cost over its messages, absent values
\* counting as 0.
C2_TotalsAreSums ==
  (TurnAnswered /\ nFaults = 0)
    => \A c \in ConvIds :
         MessagesOf(c) # {} =>
           /\ convs[c].exists
           /\ Val(convs[c].totalInputTokens)
                = SumOf(MessagesOf(c), "inputTokens")
           /\ Val(convs[c].totalOutputTokens)
                = SumOf(MessagesOf(c), "outputTokens")
           /\ Val(convs[c].totalCost) = SumOf(MessagesOf(c), "cost")

\* C3: every file block of the system prompt sent to the provider is the text
\* of a file the requesting user can access under canAccessFile.
C3_PromptFilesAccessible ==
  (resp.op \in {"chat", "invoke"} /\ resp.status # 400)
    => \A i \in DOMAIN resp.call.blocks :
         ActorCanAccess(files[resp.call.blocks[i]], resp.call.userId)

\* C18 (checked under SpecConcurrent): when the turns that ran at the same
\* time on conversation 0 have all completed their writes, its totals are the
\* sums of the tokens and costs of the turns, which are those of its
\* messages.
C18_NoLostUpdate ==
  ((\A p \in Procs : proc[p].pc = "idle") /\ nFaults = 0)
    => /\ convs[0].totalInputTokens = SumOf(MessagesOf(0), "inputTokens")
       /\ convs[0].totalOutputTokens = SumOf(MessagesOf(0), "outputTokens")
       /\ convs[0].totalCost = SumOf(MessagesOf(0), "cost")

\* two turns with usage have both added to the totals of conversation 0
C18_Witness ==
  /\ \A p \in Procs : proc[p].pc = "idle"
  /\ nFaults = 0
  /\ convs[0].messageCount = 2
  /\ convs[0].totalInputTokens > 0
  /\ Cardinality(MessagesOf(0)) = 4

\* C19: every stored assistant message that carries a non-zero inputTokens or
\* outputTokens has cost = inputTokens * p.input + outputTokens * p.output,
\* p the registry pricing of its model; one without usage has cost 0 and no
\* tokens.
C19_CostFollowsPricing ==
  \A m \in {n \in msgs : n.role = "assistant"} :
    IF Truthy(m.inputTokens) \/ Truthy(m.outputTokens)
      THEN /\ getModelInfo(m.modelId)
           /\ m.cost = Val(m.inputTokens)
                          * MODEL_CONFIGS[m.modelId].pricing.input
                        + Val(m.outputTokens)
                          * MODEL_CONFIGS[m.modelId].pricing.output
      ELSE /\ m.cost = 0
           /\ Val(m.inputTokens) = 0
           /\ Val(m.outputTokens) = 0

\* C20 (checked under SpecProviders): the temperature and maxTokens sent to
\* the provider are those of the request when it gives them, and the defaults
\* (0.7; 4096 for converse, 8192 for generateContent) when it does not.
C20_SamplingForwarded ==
  resp.op \in {"converse", "generateContent"}
    => /\ resp.temperature = IF resp.request.temperature # Absent
                               THEN resp.request.temperature ELSE 7
       /\ resp.maxTokens = IF resp.request.maxTokens # Absent
                             THEN resp.request.maxTokens
                             ELSE IF resp.op = "converse" THEN 4096 ELSE 8192

\* the adapter and the provider tag the registry names for the models of the
\* requests: gemini for gemini-3-flash-preview, bedrock for the us.* models
ExpectedAdapter(model) ==
  IF model = Gemini THEN "invokeGemini" ELSE "invokeBedrock"

\* C21 (checked under SpecRag): a chat request that passes validation invokes
\* one adapter, once: the one of the provider field of the model's registry
\* entry, and the provider tag of the response is that field.
C21_OneAdapterByRegistry ==
  (resp.op \in {"chat", "invoke"} /\ resp.status # 400)
    => /\ Len(resp.call.invoked) = 1
       /\ resp.call.invoked[1] = ExpectedAdapter(resp.call.model)
       /\ resp.call.provider = MODEL_CONFIGS[resp.call.model].provider
       /\ resp.call.provider = ProviderTag(ExpectedAdapter(resp.call.model))

\* a request for the Gemini model was answered by the direct-SDK adapter
C21_Witness ==
  /\ resp.op = "chat"
  /\ resp.status = 200
  /\ resp.call.model = Gemini
  /\ resp.call.invoked = <<"invokeGemini">>
  /\ resp.call.provider = "gemini"

\* C22 (checked under SpecAuth): a sign-in that authenticates, for the email
\* of a user whose sign-up stored a record, is answered 200 with that
\* user's userId and role user, whatever other records the USERS partition
\* holds.
C22_SignInReturnsOwnRecord ==
  (/\ resp.op = "signIn"
   /\ resp.status = 200
   /\ users[resp.email].exists
   /\ users[resp.email].role = "user"
   /\ users[resp.email].organizationId = None)
    => /\ resp.user.exists
       /\ resp.user.userId = resp.email
       /\ resp.user.role = "user"

\* C23: after a chat turn that was answered 200 with a conversationId, no
\* write having failed, the index sort key of the conversation is that of
\* its updatedAt: GSI1SK = "CONV#" + updatedAt.
C23_IndexKeyFollowsUpdatedAt ==
  (TurnSaved /\ nFaults = 0)
    => /\ convs[resp.conversationId].exists
       /\ convs[resp.conversationId].GSI1SK
            = convs[resp.conversationId].updatedAt

\* the ids of fileIds under which a file record is stored, in order
RECURSIVE RemoveMissing(_)
RemoveMissing(fileIds) ==
  IF fileIds = <<>> THEN <<>>
  ELSE IF files[fileIds[1]].exists
    THEN <<fileIds[1]>> \o RemoveMissing(Tail(fileIds))
  ELSE RemoveMissing(Tail(fileIds))

C28_ProviderFailureWritesNothing ==
  [][(/\ resp'.op = "chat"
      /\ resp'.status # 400
      /\ proc' = proc
      /\ "error" \in DOMAIN resp')
       => /\ resp'.status = 500
          /\ resp'.error = ProviderMessage
          /\ convs' = convs
          /\ msgs' = msgs]_vars

\* a request failed at the provider after an earlier turn was persisted
C28_Witness ==
  /\ resp.op = "chat"
  /\ resp.status = 500
  /\ resp.error = ProviderMessage
  /\ \E c \in ConvIds : convs[c].exists /\ MessagesOf(c) # {}

\* C29: every CONV#c META item of the table is complete: conversationId,
\* userId, GSI1PK, createdAt, messageCount and the three totals are defined;
\* and every stored message lies under a partition with such an item, once
\* the turns have run to their end.
C29_MetaItemsComplete ==
  /\ \A c \in ConvIds :
       convs[c].exists
         => /\ convs[c].conversationId # Absent
            /\ convs[c].userId # None
            /\ convs[c].GSI1PK # None
            /\ convs[c].createdAt # Absent
            /\ convs[c].messageCount # Absent
            /\ convs[c].totalInputTokens # Absent
            /\ convs[c].totalOutputTokens # Absent
            /\ convs[c].totalCost # Absent
  /\ (\A p \in Procs : proc[p].pc = "idle" /\ nFaults = 0)
       => \A m \in msgs : convs[m.conv].exists

\* C30 (checked under SpecForeign): a step of a chat turn whose userId is not
\* the owner recorded on the conversation it names leaves that conversation
\* as it is: its META item and its messages.
C30_OnlyOwnerWrites ==
  [][\A p \in Procs :
       (/\ proc[p].pc # "idle"
        /\ proc'[p] # proc[p]
        /\ convs[proc[p].conversationId].exists
        /\ convs[proc[p].conversationId].userId # proc[p].userId)
         => /\ convs'[proc[p].conversationId] = convs[proc[p].conversationId]
            /\ {m \in msgs' : m.conv = proc[p].conversationId}
                 = MessagesOf(proc[p].conversationId)]_vars

\* C17 (checked under SpecRag)
\* the request answered by r has no body, no messages, no model or a model
\* that is not in the registry
RequestInvalid(r) ==
  \/ "missing" \in DOMAIN r
  \/ "model" \in DOMAIN r /\ r.model \notin DOMAIN MODEL_CONFIGS
  \/ "call" \in DOMAIN r /\ r.call.model \notin DOMAIN MODEL_CONFIGS

\* C17: a POST /chat request with no body, no model, a model that is not in
\* the registry or an empty messages array is answered 400 without a provider
\* call and without a write of a conversation or message item.
C17_InvalidRequestIs400 ==
  [][(resp'.op \in {"chat", "invoke"} /\ RequestInvalid(resp'))
       => /\ resp'.status = 400
          /\ "call" \notin DOMAIN resp'
          /\ UNCHANGED <<convs, msgs, proc>>]_vars

\* a request that names a model outside the registry was answered 400
C17_Witness ==
  /\ resp.op = "chat"
  /\ resp.status = 400
  /\ "model" \in DOMAIN resp
  /\ resp.model = "unknown"

\* C5: GET /conversations/c lists the user message of a turn before the
\* assistant message of that turn, whatever timestamps and message ids the
\* two writes received.
C5_UserBeforeAssistant ==
  (resp.op = "getConversation" /\ resp.status = 200)
    => \A i, j \in DOMAIN resp.messages :
         ( /\ resp.messages[i].turn = resp.messages[j].turn
           /\ resp.messages[i].role = "user"
           /\ resp.messages[j].role = "assistant" ) => i < j

\* C6: when POST /chat answers 200 with a conversationId c, the META item of
\* c and the user and the assistant message of the turn have been written and
\* acknowledged, and are in the table for a read that starts afterwards.
C6_WritesAckedBeforeResponse ==
  TurnSaved =>
    /\ {"meta", "user", "assistant"} \subseteq resp.acked
    /\ convs[resp.conversationId].exists
    /\ \A r \in {"user", "assistant"} :
         \E m \in MessagesOf(resp.conversationId) :
           m.turn = resp.turn /\ m.role = r

\* a turn answered with its conversationId after all four writes
C6_Witness ==
  /\ TurnSaved
  /\ resp.acked = {"meta", "user", "assistant", "totals"}

\* the write handler invocation p awaits fails: the table does not carry it
\* out, or rejects the update expression
WriteFails(p) ==
  \/ proc[p].pc \in {"saveConversation", "saveUser", "saveAssistant",
                     "updateTotals"} /\ nFaults' = nFaults + 1
  \/ /\ proc[p].pc = "updateTotals"
     /\ proc'[p].pc = "idle"
     /\ ~CanAddToTotals(proc[p].conversationId)

\* C7: when a persistence write of a turn fails after the provider call has
\* returned, POST /chat answers 200 with the provider's response and without
\* a conversationId.
C7_SaveFailureStillAnswers ==
  [][\A p \in Procs :
       WriteFails(p) =>
         /\ resp'.op = "chat"
         /\ resp'.status = 200
         /\ resp'.turn = proc[p].turn
         /\ resp'.usage = proc[p].usage
         /\ resp'.conversationId = Absent]_vars

\* the totals update of a turn failed after both messages were written
C7_Witness ==
  /\ TurnAnswered
  /\ resp.conversationId = Absent
  /\ nFaults = 1
  /\ resp.acked = {"meta", "user", "assistant"}

\* ------------------------------------------------------------------------
\* Properties of the auth and admin handler (checked under SpecUsers)
\* ------------------------------------------------------------------------
\* the roles the specification lets a role create
RoleMatrix ==
  [r \in Roles |->
     IF r = "system_admin" THEN Roles
     ELSE IF r = "org_admin" THEN {"company_admin", "user"}
     ELSE IF r = "company_admin" THEN {"user"}
     ELSE {}]

\* admin a may create a user with the role and the scope of body
MayCreate(a, body) ==
  /\ body.role \in RoleMatrix[a.role]
  /\ a.role = "org_admin" => body.scope.organizationId = a.organizationId
  /\ a.role = "company_admin" => body.scope.companyId = a.companyId

\* C11: POST /admin/users by an actor with a user record adds an identity or
\* a user record only when the actor's role may create the requested role in
\* the requested scope; every other request of such an actor is answered 403
\* and leaves the identities and the user records as they are.
C11_CreateUserOnlyWhenAllowed ==
  [][(resp'.op = "createUser" /\ resp'.status # 401)
       => \/ MayCreate(users[resp'.actor], resp'.body)
          \/ resp'.status = 403 /\ UNCHANGED <<users, idents>>]_vars

\* an org_admin was refused a role it may create, for another organization
C11_Witness ==
  /\ resp.op = "createUser"
  /\ resp.status = 403
  /\ users[resp.actor].role = "org_admin"
  /\ resp.body.role \in RoleMatrix["org_admin"]
  /\ resp.body.scope.organizationId # users[resp.actor].organizationId

\* user u is visible to admin a, who asked for organization q
CanSeeUser(a, u, q) ==
  /\ a.role = "org_admin" => u.organizationId = a.organizationId
  /\ a.role = "company_admin" => u.companyId = a.companyId
  /\ (a.role = "system_admin" /\ q # None) => u.organizationId = q
  /\ a.role # "user"

\* C12: every user GET /admin/users returns to admin a is visible to a, and
\* an actor with role user is answered 403 with no users.
C12_ListedUsersVisible ==
  (resp.op = "listUsers" /\ resp.status # 401)
    => /\ \A u \in resp.users :
            CanSeeUser(users[resp.actor], u, resp.organizationId)
       /\ users[resp.actor].role = "user"
            => resp.status = 403 /\ resp.users = {}

\* an org_admin got a listing that leaves out a user of the table
C12_Witness ==
  /\ resp.op = "listUsers"
  /\ resp.status = 200
  /\ users[resp.actor].role = "org_admin"
  /\ resp.users # {}
  /\ \E v \in UserIds : users[v].exists /\ users[v] \notin resp.users

\* C24: every user record whose role is not system_admin carries the scope
\* identifiers enclosing its role: organizationId for an org_admin,
\* organizationId and companyId for a company_admin and for a user.
C24_ScopesEncloseRole ==
  \A u \in UserIds :
    (users[u].exists /\ users[u].role # "system_admin")
      => /\ users[u].organizationId # None
         /\ users[u].role \in {"company_admin", "user"}
              => users[u].companyId # None

\* C25 (checked under SpecAuth): a request to /auth/profile for a userId whose
\* bearer value resolves to no user record is answered 401 and leaves the user records as
\* they are.
C25_ProfileNeedsActor ==
  [][\A authHeader \in Bearers :
       (/\ ~getUserFromToken(authHeader).exists
        /\ \E method \in {"GET", "PUT"}, userId \in UserIds,
              name \in {None, "n"}, d \in {0, 1} :
             profileRoute(authHeader, method, userId, name, d))
         => /\ resp'.status = 401
            /\ users' = users]_vars

\* ------------------------------------------------------------------------
\* Properties of the conversations handler (checked under SpecDelete)
\* ------------------------------------------------------------------------
\* C16: when DELETE /conversations/c is answered 200 while no chat turn is
\* running, no item is left under CONV#c: neither the META item nor a
\* message item.
C16_DeleteLeavesNoItem ==
  [][( /\ resp'.op = "deleteConversation"
       /\ resp'.status = 200
       /\ \A p \in Procs : proc[p].pc = "idle" )
       => /\ ~convs'[resp'.conversationId].exists
          /\ \A m \in msgs' : m.conv # resp'.conversationId]_vars

====
